---- MODULE Spec2Model ----
(***************************************************************************)
(* Model of ruru.base.matching: the prefix matcher pmatch and the argument *)
(* resolver match_arg (its str handler and its Iterable handler).          *)
(*                                                                         *)
(* A Python str is a sequence of one-character strings, so startswith,     *)
(* ", ".join and the f-string messages are computed character by           *)
(* character.  List indices are 0-based, as in Python: position i of a     *)
(* Python list is element i + 1 of the TLA+ sequence.                      *)
(***************************************************************************)
EXTENDS Integers, Sequences, FiniteSets, TLC

\* ------------------------------------------------------------------ bounds
\* Longest query or candidate string.
MaxStrLen == 2
\* Longest choices list a caller passes.
MaxChoices == 3
\* Longest batch (non-string iterable) query.
MaxBatch == 2

\* The characters of the strings; two are enough for a candidate to start
\* with the query, to equal it, or to differ from it in the first character.
Alphabet == {"a", "b"}

Strings == UNION {[1..n -> Alphabet] : n \in 0..MaxStrLen}
ChoiceLists == UNION {[1..n -> Strings] : n \in 0..MaxChoices}
Batches == UNION {[1..n -> Strings] : n \in 0..MaxBatch}

\* The candidates of the specification of all call shapes: the empty
\* string and two candidates with a common proper prefix.
CallCandidates == {<<>>, <<"a", "a">>, <<"a", "b">>}
CallChoiceLists == UNION {[1..n -> CallCandidates] : n \in 0..MaxChoices}

\* The candidates of the order specification: one that is a proper prefix
\* of two others, and one that shares no prefix with them.
OrderCandidates == {<<"a">>, <<"a", "a">>, <<"a", "b">>, <<"b">>}
OrderChoiceLists == UNION {[1..n -> OrderCandidates] : n \in 0..MaxChoices}

\* The candidates and the query of test_case_sensitivity.
Apple == <<"A", "p", "p", "l", "e">>
apple == <<"a", "p", "p", "l", "e">>
APPLE == <<"A", "P", "P", "L", "E">>
app == <<"a", "p", "p">>

\* The candidates of the letter-case specification: those of the test, and
\* one that has the test's query inside it but not at its start.
CaseCandidates ==
    {Apple, apple, APPLE, <<"p", "i", "n", "e", "a", "p", "p", "l", "e">>}
CaseChoiceLists == UNION {[1..n -> CaseCandidates] : n \in 0..MaxChoices}

\* The queries of the letter-case specification: the test's query in four
\* spellings, a query found only inside candidates, and a whole candidate.
CaseQueries ==
    {app, <<"A", "p", "p">>, <<"A", "P", "P">>, <<"a", "P", "p">>,
     <<"p", "p", "l">>, apple}

\* The candidates of the policy specification: the empty string, and one
\* that is a proper prefix of two others.
PolicyCandidates == {<<>>, <<"a">>, <<"a", "a">>, <<"a", "b">>}
PolicyChoiceLists == UNION {[1..n -> PolicyCandidates] : n \in 0..MaxChoices}

\* The candidates of the batch specification: one that is a proper prefix of
\* the two others, so that a batch element can match exactly, match by a
\* unique prefix, be ambiguous, or match nothing.
BatchCandidates == {<<"a">>, <<"a", "a">>, <<"a", "b">>}
BatchChoiceLists == UNION {[1..n -> BatchCandidates] : n \in 0..MaxChoices}

\* ------------------------------------------------------- message literals
NotValidHead ==
    << "T", "h", "e", " ", "p", "r", "o", "v", "i", "d", "e", "d", " ", "a",
      "r", "g", "u", "m", "e", "n", "t", " ", "'" >>
NotValidMid ==
    << "'", " ", "i", "s", " ", "n", "o", "t", " ", "v", "a", "l", "i", "d",
      ".", " ", "A", "v", "a", "i", "l", "a", "b", "l", "e", " ", "c", "h",
      "o", "i", "c", "e", "s", " ", "a", "r", "e", ":", " " >>
NotValidTail ==
    << "." >>
AmbiguousHead ==
    << "T", "h", "e", " ", "a", "r", "g", "u", "m", "e", "n", "t", " ", "'" >>
AmbiguousMid ==
    << "'", " ", "m", "a", "t", "c", "h", "e", "s", " ", "m", "u", "l", "t",
      "i", "p", "l", "e", " ", "c", "h", "o", "i", "c", "e", "s", ":", " " >>
AmbiguousTail ==
    << ".", " ", "B", "e", " ", "m", "o", "r", "e", " ", "s", "p", "e", "c",
      "i", "f", "i", "c", "." >>
IterablePolicyMessage ==
    << "I", "t", "e", "r", "a", "b", "l", "e", " ", "i", "n", "p", "u", "t",
      " ", "i", "s", " ", "o", "n", "l", "y", " ", "a", "l", "l", "o", "w",
      "e", "d", " ", "w", "h", "e", "n", " ", "s", "e", "v", "e", "r", "a",
      "l", "_", "o", "k", "=", "T", "r", "u", "e", ".", " ", "U", "s", "e",
      " ", "s", "e", "v", "e", "r", "a", "l", "_", "o", "k", "=", "T", "r",
      "u", "e", " ", "o", "r", " ", "p", "r", "o", "v", "i", "d", "e", " ",
      "a", " ", "s", "i", "n", "g", "l", "e", " ", "s", "t", "r", "i", "n",
      "g", " ", "a", "r", "g", "u", "m", "e", "n", "t", "." >>
ElementHead ==
    << "E", "r", "r", "o", "r", " ", "i", "n", " ", "i", "t", "e", "r", "a",
      "b", "l", "e", " ", "e", "l", "e", "m", "e", "n", "t", " " >>
ElementOpen ==
    << " ", "(", "'" >>
ElementClose ==
    << "'", ")", ":", " " >>
CommaSpace ==
    << ",", " " >>

\* ---------------------------------------------------------- Python values
\* pmatch returns int | None; None is a value no index and no marker equals.
None == -2
\* The marker pmatch returns for an ambiguous prefix.
AmbiguousIdx == -1

\* str.startswith comparing letters without regard to case.
startswith_casefold(s, prefix) ==
    LET lower(ch) == CASE ch = "A" -> "a"
                       [] ch = "P" -> "p"
                       [] ch = "L" -> "l"
                       [] ch = "E" -> "e"
                       [] OTHER -> ch
    IN  /\ Len(prefix) <= Len(s)
        /\ \A k \in 1..Len(prefix) : lower(s[k]) = lower(prefix[k])

\* str.startswith with receiver and argument exchanged.
startswith_swapped(s, prefix) ==
    /\ Len(s) <= Len(prefix)
    /\ \A k \in 1..Len(s) : prefix[k] = s[k]

\* str.startswith comparing only the characters both strings have.
startswith_overlap(s, prefix) ==
    \A k \in 1..Len(prefix) : k <= Len(s) => s[k] = prefix[k]

\* str.startswith: the first len(prefix) characters of s are prefix.
startswith(s, prefix) ==
    /\ Len(prefix) <= Len(s)
    /\ \A k \in 1..Len(prefix) : s[k] = prefix[k]

\* list(dict.fromkeys(choices)): keys in insertion order, a repeated key
\* keeps its first position.
RECURSIVE fromkeys(_, _)
fromkeys(seq, acc) ==
    IF seq = <<>> THEN acc
    ELSE LET h == Head(seq)
         IN  IF \E k \in 1..Len(acc) : acc[k] = h
                THEN fromkeys(Tail(seq), acc)
                ELSE fromkeys(Tail(seq), Append(acc, h))

\* No deduplication: the caller's list is used as it is.
dedup_skipped(choices) == choices

dedup(choices) == fromkeys(choices, <<>>)

\* sep.join(parts)
RECURSIVE join(_, _)
join(sep, parts) ==
    IF parts = <<>> THEN <<>>
    ELSE IF Len(parts) = 1 THEN parts[1]
    ELSE parts[1] \o sep \o join(sep, Tail(parts))

\* list.index counting the position from the end of the list.
list_index_from_end(table_list, x) ==
    Len(table_list)
        - (CHOOSE i \in 1..Len(table_list) :
              /\ table_list[i] = x
              /\ \A j \in 1..(i - 1) : table_list[j] # x)

\* list.index(x): the 0-based position of the first element equal to x;
\* called only when there is one (otherwise Python raises ValueError).
list_index(table_list, x) ==
    (CHOOSE i \in 1..Len(table_list) :
        /\ table_list[i] = x
        /\ \A j \in 1..(i - 1) : table_list[j] # x) - 1

\* [i for i, choice in enumerate(table_list) if choice.startswith(x)]
RECURSIVE prefix_indices(_, _, _)
prefix_indices(table_list, x, i) ==
    IF i > Len(table_list) THEN <<>>
    ELSE IF startswith(table_list[i], x)
         THEN <<i - 1>> \o prefix_indices(table_list, x, i + 1)
         ELSE prefix_indices(table_list, x, i + 1)

\* The comprehension without its filter: every choice is listed.
partial_matches_unfiltered(choices, arg) == choices

\* [choice for choice in choices if choice.startswith(arg)]
RECURSIVE partial_matches(_, _)
partial_matches(choices, arg) ==
    IF choices = <<>> THEN <<>>
    ELSE IF startswith(Head(choices), arg)
         THEN <<Head(choices)>> \o partial_matches(Tail(choices), arg)
         ELSE partial_matches(Tail(choices), arg)

\* ---------------------------------------------------------------- pmatch
\* pmatch with the prefix scan done before the exact-match scan: a query
\* with several prefix matches is ambiguous before equality is looked at.
pmatch_prefix_first(x, table) ==
    IF x = <<>> THEN None
    ELSE LET matches == prefix_indices(table, x, 1)
         IN  IF matches = <<>> THEN None
             ELSE IF Len(matches) = 1 THEN matches[1]
             ELSE AmbiguousIdx

\* pmatch that resolves an ambiguous prefix to its first match.
pmatch_first_of_many(x, table) ==
    IF x = <<>> THEN None
    ELSE IF \E i \in 1..Len(table) : table[i] = x
         THEN list_index(table, x)
         ELSE LET matches == prefix_indices(table, x, 1)
              IN  IF matches = <<>> THEN None
                  ELSE matches[1]

\* pmatch without the empty-query check.
pmatch_no_empty_check(x, table) ==
    IF \E i \in 1..Len(table) : table[i] = x
       THEN list_index(table, x)
       ELSE LET matches == prefix_indices(table, x, 1)
            IN  IF matches = <<>> THEN None
                ELSE IF Len(matches) = 1 THEN matches[1]
                ELSE AmbiguousIdx

pmatch(x, table) ==
    IF x = <<>> THEN None
    ELSE IF \E i \in 1..Len(table) : table[i] = x
         THEN list_index(table, x)
         ELSE LET matches == prefix_indices(table, x, 1)
              IN  IF matches = <<>> THEN None
                  ELSE IF Len(matches) = 1 THEN matches[1]
                  ELSE AmbiguousIdx

\* ------------------------------------------------------ match_arg outcomes
\* What a call produced: a returned str, a returned list of str, or a raised
\* ValueError with its message.
ReturnStr(s) == [kind |-> "str", val |-> s]
ReturnList(l) == [kind |-> "list", val |-> l]
ValueError(msg) == [kind |-> "ValueError", val |-> msg]
NoOutcome == [kind |-> "pending", val |-> <<>>]

not_valid_message(arg, choices) ==
    NotValidHead \o arg \o NotValidMid \o join(CommaSpace, choices)
        \o NotValidTail

ambiguous_message(arg, matches) ==
    AmbiguousHead \o arg \o AmbiguousMid \o join(CommaSpace, matches)
        \o AmbiguousTail

\* The str handler indexing the caller's list, not the deduplicated one.
match_arg_str_stale_index(arg, choices0, several_ok) ==
    LET choices == dedup(choices0)
        match_idx == pmatch(arg, choices)
    IN  IF match_idx = None
           THEN ValueError(not_valid_message(arg, choices))
        ELSE IF match_idx = AmbiguousIdx
           THEN IF several_ok
                   THEN ReturnList(partial_matches(choices, arg))
                   ELSE ValueError(ambiguous_message(arg,
                                       partial_matches(choices, arg)))
        ELSE LET matched_choice == choices0[match_idx + 1]
             IN  IF several_ok THEN ReturnList(<<matched_choice>>)
                 ELSE ReturnStr(matched_choice)

\* The str handler returning only the first of several partial matches.
match_arg_str_first_only(arg, choices0, several_ok) ==
    LET choices == dedup(choices0)
        match_idx == pmatch(arg, choices)
    IN  IF match_idx = None
           THEN ValueError(not_valid_message(arg, choices))
        ELSE IF match_idx = AmbiguousIdx
           THEN IF several_ok
                   THEN ReturnList(<<partial_matches(choices, arg)[1]>>)
                   ELSE ValueError(ambiguous_message(arg,
                                       partial_matches(choices, arg)))
        ELSE LET matched_choice == choices[match_idx + 1]
             IN  IF several_ok THEN ReturnList(<<matched_choice>>)
                 ELSE ReturnStr(matched_choice)

\* The str handler letting several_ok turn a no-match into an empty list.
match_arg_str_lenient(arg, choices0, several_ok) ==
    LET choices == dedup(choices0)
        match_idx == pmatch(arg, choices)
    IN  IF match_idx = None
           THEN IF several_ok THEN ReturnList(<<>>)
                ELSE ValueError(not_valid_message(arg, choices))
        ELSE IF match_idx = AmbiguousIdx
           THEN IF several_ok
                   THEN ReturnList(partial_matches(choices, arg))
                   ELSE ValueError(ambiguous_message(arg,
                                       partial_matches(choices, arg)))
        ELSE LET matched_choice == choices[match_idx + 1]
             IN  IF several_ok THEN ReturnList(<<matched_choice>>)
                 ELSE ReturnStr(matched_choice)

\* The str handler of _match_arg.
match_arg_str(arg, choices0, several_ok) ==
    LET choices == dedup(choices0)
        match_idx == pmatch(arg, choices)
    IN  IF match_idx = None
           THEN ValueError(not_valid_message(arg, choices))
        ELSE IF match_idx = AmbiguousIdx
           THEN IF several_ok
                   THEN ReturnList(partial_matches(choices, arg))
                   ELSE ValueError(ambiguous_message(arg,
                                       partial_matches(choices, arg)))
        ELSE LET matched_choice == choices[match_idx + 1]
             IN  IF several_ok THEN ReturnList(<<matched_choice>>)
                 ELSE ReturnStr(matched_choice)

\* str(i) of a non-negative int: its decimal digits.
Digits == <<"0", "1", "2", "3", "4", "5", "6", "7", "8", "9">>
RECURSIVE int_str(_)
int_str(n) ==
    IF n < 10 THEN <<Digits[n + 1]>>
    ELSE int_str(n \div 10) \o <<Digits[(n % 10) + 1]>>

\* The element error counting the elements from 1.
element_error_message_one_based(idx, single_arg, e) ==
    ElementHead \o int_str(idx + 1) \o ElementOpen \o single_arg
        \o ElementClose \o e

\* f"Error in iterable element {i} ('{single_arg}'): {e}"
element_error_message(idx, single_arg, e) ==
    ElementHead \o int_str(idx) \o ElementOpen \o single_arg
        \o ElementClose \o e

\* An accumulator that skips the matches it already holds.
RECURSIVE list_extend_unique(_, _)
list_extend_unique(acc, result) ==
    IF result = <<>> THEN acc
    ELSE IF \E k \in 1..Len(acc) : acc[k] = Head(result)
         THEN list_extend_unique(acc, Tail(result))
         ELSE list_extend_unique(Append(acc, Head(result)), Tail(result))

\* all_matches.extend(result)
list_extend(acc, result) == acc \o result

\* The loop of the Iterable handler from element idx on: each element goes
\* through the str handler with several_ok=True; the first ValueError is
\* wrapped and raised, otherwise the accumulated matches are returned.
RECURSIVE iterable_loop(_, _, _, _)
iterable_loop(arg_list, choices, idx, all_matches) ==
    IF idx = Len(arg_list) THEN ReturnList(all_matches)
    ELSE LET single_arg == arg_list[idx + 1]
             result == match_arg_str(single_arg, choices, TRUE)
         IN  IF result.kind = "ValueError"
                THEN ValueError(
                         element_error_message(idx, single_arg, result.val))
                ELSE iterable_loop(arg_list, choices, idx + 1,
                                   list_extend(all_matches, result.val))

\* The Iterable handler of _match_arg, from call to return or raise.
match_arg_iterable(arg, choices0, several_ok) ==
    LET choices == dedup(choices0)
    IN  IF ~several_ok THEN ValueError(IterablePolicyMessage)
        ELSE iterable_loop(arg, choices, 0, <<>>)

\* ------------------------------------- ruru.base.match_arg operators
\* error_msg of ruru.base.match_arg.match_arg: the choices as the caller
\* gave them, joined by ", ".
error_msg(arg, choices) ==
    NotValidHead \o arg \o NotValidMid \o join(CommaSpace, choices)
        \o NotValidTail

\* The function accepting every prefix of a choice.
legacy_match_arg_prefix(arg, choices) ==
    IF ~\E k \in 1..Len(choices) : startswith(choices[k], arg)
       THEN ValueError(error_msg(arg, choices))
       ELSE ReturnStr(arg)

\* ruru.base.match_arg.match_arg(arg, choices): arg when it is in choices,
\* ValueError(error_msg) when it is not.
legacy_match_arg(arg, choices) ==
    IF ~\E k \in 1..Len(choices) : choices[k] = arg
       THEN ValueError(error_msg(arg, choices))
       ELSE ReturnStr(arg)

\* ------------------------------------------------------ ruru.cli.themes
\* A Theme object: obj tells one object from another, name and colors are
\* its attributes.
Theme(obj, name, colors) == [obj |-> obj, name |-> name, colors |-> colors]

\* _THEMES, the predefined themes by name, in the order of the dict.
ThemeNames == <<"default", "dark", "light", "minimal">>
THEMES ==
    [n \in {"default", "dark", "light", "minimal"} |->
        CASE n = "default" ->
               Theme("default", "default",
                     [heading |-> "bright_white", subheading |-> "white",
                      success |-> "green", error |-> "red",
                      warning |-> "yellow", info |-> "blue",
                      dim |-> "bright_black"])
          [] n = "dark" ->
               Theme("dark", "dark",
                     [heading |-> "bright_cyan", subheading |-> "cyan",
                      success |-> "bright_green", error |-> "bright_red",
                      warning |-> "bright_yellow", info |-> "bright_blue",
                      dim |-> "bright_black"])
          [] n = "light" ->
               Theme("light", "light",
                     [heading |-> "black", subheading |-> "bright_black",
                      success |-> "green", error |-> "red",
                      warning |-> "yellow", info |-> "blue",
                      dim |-> "bright_black"])
          [] n = "minimal" ->
               Theme("minimal", "minimal",
                     [heading |-> "white", subheading |-> "white",
                      success |-> "white", error |-> "white",
                      warning |-> "white", info |-> "white",
                      dim |-> "bright_black"])]

\* Theme objects made by create_custom_theme: one with a name of its own,
\* one named like a predefined theme.
CustomThemes ==
    {Theme("custom1", "custom", [heading |-> "cyan"]),
     Theme("custom2", "dark", [heading |-> "cyan"])}

\* What a caller passes to set_theme: a str or a Theme object.
ThemeArg(kind, val) == [kind |-> kind, val |-> val]
ThemeArgs ==
    {ThemeArg("str", n) :
        n \in {"default", "dark", "light", "minimal", "invalid_theme"}}
        \cup {ThemeArg("Theme", th) : th \in CustomThemes \cup {THEMES["light"]}}

\* A value that no call returned.
NoReturn == [kind |-> "none"]

\* "Unknown theme: {theme}. Available themes: {available}", in its parts.
unknown_theme_msg(theme) ==
    <<"Unknown theme: ", theme, ". Available themes: ">> \o
        <<ThemeNames[1], ", ", ThemeNames[2], ", ", ThemeNames[3], ", ",
          ThemeNames[4]>>

\* set_theme resetting to the default theme before it raises.
set_theme_resetting(cur, theme) ==
    IF theme.kind = "Theme"
       THEN [current |-> theme.val, raised |-> NoReturn]
    ELSE IF theme.val \in DOMAIN THEMES
       THEN [current |-> THEMES[theme.val], raised |-> NoReturn]
    ELSE [current |-> THEMES["default"],
          raised |-> ValueError(unknown_theme_msg(theme.val))]

\* set_theme(theme) with _current_theme = cur: the new _current_theme and
\* the ValueError raised, if any.
set_theme(cur, theme) ==
    IF theme.kind = "Theme"
       THEN [current |-> theme.val, raised |-> NoReturn]
    ELSE IF theme.val \in DOMAIN THEMES
       THEN [current |-> THEMES[theme.val], raised |-> NoReturn]
    ELSE [current |-> cur,
          raised |-> ValueError(unknown_theme_msg(theme.val))]

\* ---------------------------------------------------- ruru.cli.elements
\* The characters str.split() takes for whitespace, among those of the
\* texts.
Whitespace == {" ", "\n"}

\* text.split(): the maximal runs of characters that are not whitespace,
\* in order; word is the run being read.
RECURSIVE split(_, _)
split(s, word) ==
    IF s = <<>> THEN (IF word = <<>> THEN <<>> ELSE <<word>>)
    ELSE IF Head(s) \in Whitespace
            THEN (IF word = <<>> THEN <<>> ELSE <<word>>)
                     \o split(Tail(s), <<>>)
            ELSE split(Tail(s), Append(word, Head(s)))

\* The loop of paragraph over the remaining words, and what follows it:
\* the lines joined by "\n".
RECURSIVE wrap(_, _, _, _, _)
wrap(words, lines, current_line, current_length, w) ==
    IF words = <<>>
       THEN join(<<"\n">>,
                 IF current_line # <<>>
                    THEN Append(lines, join(<<" ">>, current_line))
                    ELSE lines)
       ELSE LET word == Head(words)
            IN  IF current_length + Len(word) + Len(current_line) <= w
                   THEN wrap(Tail(words), lines, Append(current_line, word),
                             current_length + Len(word), w)
                   ELSE wrap(Tail(words),
                             IF current_line # <<>>
                                THEN Append(lines, join(<<" ">>, current_line))
                                ELSE lines,
                             <<word>>, Len(word), w)

\* paragraph(text, width=w) for an int w.
paragraph(s, w) ==
    IF Len(s) <= w THEN s
    ELSE wrap(split(s, <<>>), <<>>, <<>>, 0, w)

\* ---------------------------------------------------------- ruru.config
\* Python values of a configuration: str, int, list and dict.  A value
\* carries its type and, by type, its characters, its number or its items;
\* an item of a dict has a key, in insertion order, an item of a list has
\* none.
PyStr(s) == [type |-> "str", str |-> s, num |-> 0, items |-> <<>>]
PyInt(n) == [type |-> "int", str |-> <<>>, num |-> n, items |-> <<>>]
Item(key, value) == [key |-> key, value |-> value]
PyList(values) ==
    [type |-> "list", str |-> <<>>, num |-> 0,
     items |-> [k \in 1..Len(values) |-> Item(<<>>, values[k])]]
PyDict(items) == [type |-> "dict", str |-> <<>>, num |-> 0, items |-> items]

\* The character classes of pattern = r"\$([A-Z_][A-Z0-9_]*)".
NameStart ==
    {"A", "B", "C", "D", "E", "F", "G", "H", "I", "J", "K", "L", "M", "N",
     "O", "P", "Q", "R", "S", "T", "U", "V", "W", "X", "Y", "Z", "_"}
NameChar ==
    NameStart \cup {"0", "1", "2", "3", "4", "5", "6", "7", "8", "9"}

\* os.getenv(var_name, default) over the environment env, a function from
\* the names that are set to their values.
getenv(var_name, default, env) ==
    IF var_name \in DOMAIN env THEN env[var_name] ELSE default

\* The longest run of name characters at the start of s: what the greedy
\* [A-Z0-9_]* takes.
RECURSIVE name_run(_)
name_run(s) ==
    IF s # <<>> /\ Head(s) \in NameChar
       THEN <<Head(s)>> \o name_run(Tail(s))
       ELSE <<>>

\* re.sub(pattern, _replace_var, value): every match, left to right, is
\* replaced by os.getenv(var_name, ""); the replacement is not scanned.
RECURSIVE re_sub(_, _)
re_sub(value, env) ==
    IF value = <<>> THEN <<>>
    ELSE IF /\ Head(value) = "$"
            /\ Len(value) >= 2
            /\ value[2] \in NameStart
            THEN LET var_name == name_run(Tail(value))
                 IN  getenv(var_name, <<>>, env)
                         \o re_sub(SubSeq(value, Len(var_name) + 2,
                                          Len(value)), env)
            ELSE <<Head(value)>> \o re_sub(Tail(value), env)

\* re.fullmatch(pattern, value) is not None.
fullmatch(value) ==
    /\ Len(value) >= 2
    /\ value[1] = "$"
    /\ value[2] \in NameStart
    /\ \A k \in 3..Len(value) : value[k] \in NameChar

\* _expand_env_vars without the branch for a lone variable.
expand_env_vars_always_sub(value, env) == re_sub(value, env)

\* _expand_env_vars(value)
expand_env_vars(value, env) ==
    IF fullmatch(value)
       THEN getenv(Tail(value), value, env)
       ELSE re_sub(value, env)

\* replace_env_vars(data) and _replace_item(item), each calling the other.
RECURSIVE replace_env_vars(_, _)
RECURSIVE replace_item(_, _)
replace_env_vars(data, env) ==
    IF data.type = "dict"
       THEN PyDict([k \in 1..Len(data.items) |->
                      Item(data.items[k].key,
                           replace_item(data.items[k].value, env))])
    ELSE IF data.type = "list"
       THEN PyList([k \in 1..Len(data.items) |->
                      replace_item(data.items[k].value, env)])
    ELSE data

replace_item(item, env) ==
    IF item.type = "str" /\ \E k \in 1..Len(item.str) : item.str[k] = "$"
       THEN PyStr(expand_env_vars(item.str, env))
    ELSE IF item.type \in {"dict", "list"}
       THEN replace_env_vars(item, env)
    ELSE item

\* ------------------------------------------------------------------ state
VARIABLES
    choices,      \* the caller's choices list (pmatch's table)
    fn,           \* the function called: "none", "pmatch", "match_arg"
    arg,          \* the query: a str, or a list of str for a batch
    is_batch,     \* the query is a non-string iterable
    several_ok,   \* the policy flag of the call
    pc,           \* "idle", "loop" (inside the Iterable handler), "done"
    local_choices,\* the Iterable handler's deduplicated choices
    arg_list,     \* the Iterable handler's list(arg)
    i,            \* number of batch elements the loop has taken
    all_matches,  \* the Iterable handler's accumulator
    pmatch_ret,   \* what pmatch returned
    outcome,      \* what match_arg returned or raised
    calls,        \* the calls of concurrent threads, each with its own
                  \* arguments, locals and result
    current_theme,\* themes._current_theme
    theme_log,    \* the calls of set_theme and get_current_theme so far
    paragraph_text, \* paragraph's text
    width,        \* paragraph's width
    paragraph_ret,\* what paragraph returned
    data,         \* replace_env_vars' data
    environ,      \* os.environ
    replaced      \* what replace_env_vars returned

\* The arguments, locals and result of the one call of the sequential
\* specifications.
matching_vars == <<choices, fn, arg, is_batch, several_ok, pc, local_choices,
                   arg_list, i, all_matches, pmatch_ret, outcome>>

thread_vars == <<calls>>
theme_vars == <<current_theme, theme_log>>
paragraph_vars == <<paragraph_text, width, paragraph_ret>>
config_vars == <<data, environ, replaced>>

\* The state outside that call.
elsewhere == <<thread_vars, theme_vars, paragraph_vars, config_vars>>

vars == <<matching_vars, elsewhere>>

\* No call has been made.
InitMatchingIdle ==
    /\ choices = <<>>
    /\ fn = "none"
    /\ arg = <<>>
    /\ is_batch = FALSE
    /\ several_ok = FALSE
    /\ pc = "idle"
    /\ local_choices = <<>>
    /\ arg_list = <<>>
    /\ i = 0
    /\ all_matches = <<>>
    /\ pmatch_ret = None
    /\ outcome = NoOutcome

\* No thread has been started.
NoThreads == calls = <<>>

\* The themes module as imported: _current_theme = _THEMES["default"].
ThemesLoaded ==
    /\ current_theme = THEMES["default"]
    /\ theme_log = <<>>

\* paragraph has not been called.
NoParagraph ==
    /\ paragraph_text = <<>>
    /\ width = 0
    /\ paragraph_ret = NoReturn

\* replace_env_vars has not been called.
NoConfig ==
    /\ data = NoReturn
    /\ environ = <<>>
    /\ replaced = NoReturn

InitElsewhere == NoThreads /\ ThemesLoaded /\ NoParagraph /\ NoConfig

Init ==
    /\ choices \in ChoiceLists
    /\ fn = "none"
    /\ arg = <<>>
    /\ is_batch = FALSE
    /\ several_ok = FALSE
    /\ pc = "idle"
    /\ local_choices = <<>>
    /\ arg_list = <<>>
    /\ i = 0
    /\ all_matches = <<>>
    /\ pmatch_ret = None
    /\ outcome = NoOutcome
    /\ InitElsewhere

\* The str handler deduplicating the caller's list in place.
MatchArgStrInPlace ==
    /\ pc = "idle"
    /\ \E x \in Strings, ok \in BOOLEAN :
        /\ arg' = x
        /\ several_ok' = ok
        /\ outcome' = match_arg_str(x, choices, ok)
    /\ choices' = dedup(choices)
    /\ fn' = "match_arg"
    /\ pc' = "done"
    /\ UNCHANGED <<is_batch, local_choices, arg_list, i, all_matches,
                   pmatch_ret>>
    /\ UNCHANGED elsewhere

\* match_arg(arg, choices, several_ok=...) with a single string.
MatchArgStr ==
    /\ pc = "idle"
    /\ \E x \in Strings, ok \in BOOLEAN :
        /\ arg' = x
        /\ several_ok' = ok
        /\ outcome' = match_arg_str(x, choices, ok)
    /\ fn' = "match_arg"
    /\ pc' = "done"
    /\ UNCHANGED <<choices, is_batch, local_choices, arg_list, i,
                   all_matches, pmatch_ret>>
    /\ UNCHANGED elsewhere

Next == MatchArgStr

\* Calls of match_arg with a single string, on every choices list.
Spec == Init /\ [][Next]_vars

\* ------------------------------------------------- pmatch called directly
\* pmatch(x, table) called directly on the caller's list.
Pmatch ==
    /\ pc = "idle"
    /\ \E x \in Strings :
        /\ arg' = x
        /\ pmatch_ret' = pmatch(x, choices)
    /\ fn' = "pmatch"
    /\ pc' = "done"
    /\ UNCHANGED <<choices, is_batch, several_ok, local_choices, arg_list, i,
                   all_matches, outcome>>
    /\ UNCHANGED elsewhere

NextPmatch == Pmatch

\* Calls of pmatch, on every table.
SpecPmatch == Init /\ [][NextPmatch]_vars

\* ---------------------------------------------------- the Iterable handler
InitBatch ==
    /\ choices \in BatchChoiceLists
    /\ fn = "none"
    /\ arg = <<>>
    /\ is_batch = FALSE
    /\ several_ok = FALSE
    /\ pc = "idle"
    /\ local_choices = <<>>
    /\ arg_list = <<>>
    /\ i = 0
    /\ all_matches = <<>>
    /\ pmatch_ret = None
    /\ outcome = NoOutcome
    /\ InitElsewhere

\* The Iterable handler entering its loop without looking at several_ok.
IterableEnterUnchecked ==
    /\ pc = "idle"
    /\ \E xs \in Batches, ok \in BOOLEAN :
        /\ arg' = xs
        /\ several_ok' = ok
        /\ arg_list' = xs
    /\ pc' = "loop"
    /\ fn' = "match_arg"
    /\ is_batch' = TRUE
    /\ local_choices' = dedup(choices)
    /\ i' = 0
    /\ all_matches' = <<>>
    /\ UNCHANGED <<choices, pmatch_ret, outcome>>
    /\ UNCHANGED elsewhere

\* match_arg(arg, choices, several_ok=...) with a non-string iterable: the
\* handler deduplicates choices, raises at once when several_ok is false,
\* and otherwise materialises the iterable and enters its loop.
IterableEnter ==
    /\ pc = "idle"
    /\ \E xs \in Batches, ok \in BOOLEAN :
        /\ arg' = xs
        /\ several_ok' = ok
        /\ IF ~ok
              THEN /\ outcome' = ValueError(IterablePolicyMessage)
                   /\ pc' = "done"
                   /\ UNCHANGED arg_list
              ELSE /\ arg_list' = xs
                   /\ pc' = "loop"
                   /\ UNCHANGED outcome
    /\ fn' = "match_arg"
    /\ is_batch' = TRUE
    /\ local_choices' = dedup(choices)
    /\ i' = 0
    /\ all_matches' = <<>>
    /\ UNCHANGED <<choices, pmatch_ret>>
    /\ UNCHANGED elsewhere

\* One iteration of the loop: the element goes through the str handler with
\* several_ok=True; its matches are appended, or its ValueError is wrapped
\* and raised, which ends the call.
IterableStep ==
    /\ pc = "loop"
    /\ i < Len(arg_list)
    /\ LET single_arg == arg_list[i + 1]
           result == match_arg_str(single_arg, local_choices, TRUE)
       IN  IF result.kind = "ValueError"
              THEN /\ outcome' = ValueError(
                          element_error_message(i, single_arg, result.val))
                   /\ pc' = "done"
                   /\ UNCHANGED <<i, all_matches>>
              ELSE /\ all_matches' = list_extend(all_matches, result.val)
                   /\ i' = i + 1
                   /\ UNCHANGED <<pc, outcome>>
    /\ UNCHANGED <<choices, fn, arg, is_batch, several_ok, local_choices,
                   arg_list, pmatch_ret>>
    /\ UNCHANGED elsewhere

\* The handler treating a batch that produced no match as a failure.
IterableReturnNonEmpty ==
    /\ pc = "loop"
    /\ i = Len(arg_list)
    /\ outcome' = IF all_matches = <<>>
                     THEN ValueError(IterablePolicyMessage)
                     ELSE ReturnList(all_matches)
    /\ pc' = "done"
    /\ UNCHANGED <<choices, fn, arg, is_batch, several_ok, local_choices,
                   arg_list, i, all_matches, pmatch_ret>>
    /\ UNCHANGED elsewhere

\* The loop is exhausted: return all_matches.
IterableReturn ==
    /\ pc = "loop"
    /\ i = Len(arg_list)
    /\ outcome' = ReturnList(all_matches)
    /\ pc' = "done"
    /\ UNCHANGED <<choices, fn, arg, is_batch, several_ok, local_choices,
                   arg_list, i, all_matches, pmatch_ret>>
    /\ UNCHANGED elsewhere

NextBatch ==
    \/ IterableEnter
    \/ IterableStep
    \/ IterableReturn

SpecBatch == InitBatch /\ [][NextBatch]_vars

\* ------------------------------------------------------- every call shape
InitCalls ==
    /\ choices \in CallChoiceLists
    /\ fn = "none"
    /\ arg = <<>>
    /\ is_batch = FALSE
    /\ several_ok = FALSE
    /\ pc = "idle"
    /\ local_choices = <<>>
    /\ arg_list = <<>>
    /\ i = 0
    /\ all_matches = <<>>
    /\ pmatch_ret = None
    /\ outcome = NoOutcome
    /\ InitElsewhere

NextCalls ==
    \/ MatchArgStr
    \/ IterableEnter
    \/ IterableStep
    \/ IterableReturn

\* Calls of match_arg with a single string or with a batch.
SpecCalls == InitCalls /\ [][NextCalls]_vars

\* ------------------------------------------ single strings, ordered lists
InitOrder ==
    /\ choices \in OrderChoiceLists
    /\ fn = "none"
    /\ arg = <<>>
    /\ is_batch = FALSE
    /\ several_ok = FALSE
    /\ pc = "idle"
    /\ local_choices = <<>>
    /\ arg_list = <<>>
    /\ i = 0
    /\ all_matches = <<>>
    /\ pmatch_ret = None
    /\ outcome = NoOutcome
    /\ InitElsewhere

NextOrder == MatchArgStr

\* Calls of match_arg with a single string, on lists in every order.
SpecOrder == InitOrder /\ [][NextOrder]_vars

\* ------------------------------------------ single strings, both policies
InitPolicy ==
    /\ choices \in PolicyChoiceLists
    /\ fn = "none"
    /\ arg = <<>>
    /\ is_batch = FALSE
    /\ several_ok = FALSE
    /\ pc = "idle"
    /\ local_choices = <<>>
    /\ arg_list = <<>>
    /\ i = 0
    /\ all_matches = <<>>
    /\ pmatch_ret = None
    /\ outcome = NoOutcome
    /\ InitElsewhere

NextPolicy == MatchArgStr

\* Calls of match_arg with a single string and either policy, on lists
\* with an exact candidate among longer ones.
SpecPolicy == InitPolicy /\ [][NextPolicy]_vars

\* ------------------------------------------------ strings in letter case
InitCase ==
    /\ choices \in CaseChoiceLists
    /\ fn = "none"
    /\ arg = <<>>
    /\ is_batch = FALSE
    /\ several_ok = FALSE
    /\ pc = "idle"
    /\ local_choices = <<>>
    /\ arg_list = <<>>
    /\ i = 0
    /\ all_matches = <<>>
    /\ pmatch_ret = None
    /\ outcome = NoOutcome
    /\ InitElsewhere

\* match_arg(arg, choices, several_ok=...) with a single string of letters
\* in upper and lower case.
MatchArgStrCase ==
    /\ pc = "idle"
    /\ \E x \in CaseQueries, ok \in BOOLEAN :
        /\ arg' = x
        /\ several_ok' = ok
        /\ outcome' = match_arg_str(x, choices, ok)
    /\ fn' = "match_arg"
    /\ pc' = "done"
    /\ UNCHANGED <<choices, is_batch, local_choices, arg_list, i,
                   all_matches, pmatch_ret>>
    /\ UNCHANGED elsewhere

\* pmatch(x, table) with a string of letters in upper and lower case.
PmatchCase ==
    /\ pc = "idle"
    /\ \E x \in CaseQueries :
        /\ arg' = x
        /\ pmatch_ret' = pmatch(x, choices)
    /\ fn' = "pmatch"
    /\ pc' = "done"
    /\ UNCHANGED <<choices, is_batch, several_ok, local_choices, arg_list, i,
                   all_matches, outcome>>
    /\ UNCHANGED elsewhere

NextCase == MatchArgStrCase \/ PmatchCase

\* Calls of match_arg and of pmatch on strings that differ in letter case.
SpecCase == InitCase /\ [][NextCase]_vars

\* ------------------------------------- ruru.base.match_arg (exact only)
\* A call of ruru.base.match_arg.match_arg.
LegacyMatchArg ==
    /\ pc = "idle"
    /\ \E x \in Strings :
        /\ arg' = x
        /\ outcome' = legacy_match_arg(x, choices)
    /\ fn' = "legacy_match_arg"
    /\ pc' = "done"
    /\ UNCHANGED <<choices, is_batch, several_ok, local_choices, arg_list, i,
                   all_matches, pmatch_ret>>
    /\ UNCHANGED elsewhere

NextLegacy == LegacyMatchArg

\* Calls of ruru.base.match_arg.match_arg, on lists with candidates that
\* are prefixes of one another.
SpecLegacy == InitOrder /\ [][NextLegacy]_vars

\* ------------------------------------------------------ concurrent calls
\* Two threads, each making one call on arguments of its own.
Threads == {1, 2}

\* The choices lists and the queries of the threads: a list on which "a" is
\* ambiguous and "b" exact, and a list on which "a" is exact and "b"
\* matches nothing.
ThreadChoiceLists ==
    {<< <<"a", "a">>, <<"a", "b">>, <<"b">> >>, << <<"a">> >>}
ThreadQueries == {<<"a">>, <<"b">>}
ThreadBatches == UNION {[1..n -> ThreadQueries] : n \in 0..MaxBatch}

\* A thread that holds its choices list and has not called yet.
IdleCall(C) ==
    [choices |-> C, fn |-> "none", arg |-> <<>>, is_batch |-> FALSE,
     several_ok |-> FALSE, pc |-> "idle", local_choices |-> <<>>,
     arg_list |-> <<>>, i |-> 0, all_matches |-> <<>>, pmatch_ret |-> None,
     outcome |-> NoOutcome]

InitThreads ==
    /\ InitMatchingIdle
    /\ ThemesLoaded
    /\ NoParagraph
    /\ NoConfig
    /\ calls \in [Threads -> {IdleCall(C) : C \in ThreadChoiceLists}]

\* Thread t calls match_arg with a single string.
ThreadMatchArgStr(t) ==
    /\ calls[t].pc = "idle"
    /\ \E x \in ThreadQueries, ok \in BOOLEAN :
          calls' = [calls EXCEPT ![t] =
                       [@ EXCEPT !.fn = "match_arg", !.arg = x,
                                 !.several_ok = ok, !.pc = "done",
                                 !.outcome =
                                     match_arg_str(x, calls[t].choices, ok)]]
    /\ UNCHANGED <<matching_vars, theme_vars, paragraph_vars, config_vars>>

\* Thread t calls pmatch.
ThreadPmatch(t) ==
    /\ calls[t].pc = "idle"
    /\ \E x \in ThreadQueries :
          calls' = [calls EXCEPT ![t] =
                       [@ EXCEPT !.fn = "pmatch", !.arg = x, !.pc = "done",
                                 !.pmatch_ret = pmatch(x, calls[t].choices)]]
    /\ UNCHANGED <<matching_vars, theme_vars, paragraph_vars, config_vars>>

\* Thread t calls match_arg with a batch and gets as far as the loop, or
\* raises the policy error.
ThreadIterableEnter(t) ==
    /\ calls[t].pc = "idle"
    /\ \E xs \in ThreadBatches, ok \in BOOLEAN :
          calls' = [calls EXCEPT ![t] =
                       [@ EXCEPT !.fn = "match_arg", !.arg = xs,
                                 !.is_batch = TRUE, !.several_ok = ok,
                                 !.local_choices = dedup(calls[t].choices),
                                 !.arg_list = IF ok THEN xs ELSE <<>>,
                                 !.pc = IF ok THEN "loop" ELSE "done",
                                 !.outcome =
                                     IF ok THEN NoOutcome
                                     ELSE ValueError(IterablePolicyMessage)]]
    /\ UNCHANGED <<matching_vars, theme_vars, paragraph_vars, config_vars>>

\* The loop appending to one accumulator that all running calls share.
ThreadIterableStepShared(t) ==
    /\ calls[t].pc = "loop"
    /\ calls[t].i < Len(calls[t].arg_list)
    /\ LET c == calls[t]
           single_arg == c.arg_list[c.i + 1]
           result == match_arg_str(single_arg, c.local_choices, TRUE)
       IN  IF result.kind = "ValueError"
              THEN calls' = [calls EXCEPT ![t] =
                       [@ EXCEPT !.pc = "done",
                                 !.outcome = ValueError(
                                     element_error_message(
                                         c.i, single_arg, result.val))]]
              ELSE calls' = [u \in Threads |->
                       IF u = t
                          THEN [c EXCEPT !.i = c.i + 1,
                                         !.all_matches =
                                             list_extend(@, result.val)]
                          ELSE IF calls[u].pc = "loop"
                                  THEN [calls[u] EXCEPT !.all_matches =
                                            list_extend(@, result.val)]
                                  ELSE calls[u]]
    /\ UNCHANGED <<matching_vars, theme_vars, paragraph_vars, config_vars>>

\* Thread t runs one iteration of its loop.
ThreadIterableStep(t) ==
    /\ calls[t].pc = "loop"
    /\ calls[t].i < Len(calls[t].arg_list)
    /\ LET c == calls[t]
           single_arg == c.arg_list[c.i + 1]
           result == match_arg_str(single_arg, c.local_choices, TRUE)
       IN  IF result.kind = "ValueError"
              THEN calls' = [calls EXCEPT ![t] =
                       [@ EXCEPT !.pc = "done",
                                 !.outcome = ValueError(
                                     element_error_message(
                                         c.i, single_arg, result.val))]]
              ELSE calls' = [calls EXCEPT ![t] =
                       [@ EXCEPT !.i = c.i + 1,
                                 !.all_matches =
                                     list_extend(@, result.val)]]
    /\ UNCHANGED <<matching_vars, theme_vars, paragraph_vars, config_vars>>

\* Thread t leaves its exhausted loop and returns all_matches.
ThreadIterableReturn(t) ==
    /\ calls[t].pc = "loop"
    /\ calls[t].i = Len(calls[t].arg_list)
    /\ calls' = [calls EXCEPT ![t] =
                    [@ EXCEPT !.pc = "done",
                              !.outcome = ReturnList(calls[t].all_matches)]]
    /\ UNCHANGED <<matching_vars, theme_vars, paragraph_vars, config_vars>>

\* Any thread takes its next step: the scheduler is free.
NextThreads ==
    \E t \in Threads :
        \/ ThreadMatchArgStr(t)
        \/ ThreadPmatch(t)
        \/ ThreadIterableEnter(t)
        \/ ThreadIterableStep(t)
        \/ ThreadIterableReturn(t)

\* Calls of match_arg and pmatch by two threads, interleaved in every way.
SpecThreads == InitThreads /\ [][NextThreads]_vars

\* ------------------------------------------------------- the theme state
\* The number of calls of set_theme and get_current_theme in a run.
MaxCalls == 3

InitThemes ==
    /\ InitMatchingIdle
    /\ NoThreads
    /\ ThemesLoaded
    /\ NoParagraph
    /\ NoConfig

\* set_theme(theme)
SetTheme ==
    /\ Len(theme_log) < MaxCalls
    /\ \E theme \in ThemeArgs :
          LET r == set_theme(current_theme, theme)
          IN  /\ current_theme' = r.current
              /\ theme_log' = Append(theme_log,
                     [op |-> "set_theme", theme |-> theme,
                      raised |-> r.raised])
    /\ UNCHANGED <<matching_vars, thread_vars, paragraph_vars, config_vars>>

\* get_current_theme()
GetCurrentTheme ==
    /\ Len(theme_log) < MaxCalls
    /\ theme_log' = Append(theme_log,
           [op |-> "get_current_theme", ret |-> current_theme])
    /\ UNCHANGED <<current_theme, matching_vars, thread_vars,
                   paragraph_vars, config_vars>>

NextThemes == SetTheme \/ GetCurrentTheme

\* Calls of set_theme and get_current_theme in every order.
SpecThemes == InitThemes /\ [][NextThemes]_vars

\* ------------------------------------------------------------ paragraph
\* The texts and the widths of the paragraph specification.
MaxTextLen == 5
MaxWidth == 3
TextAlphabet == {"a", " ", "\n"}
Texts == UNION {[1..n -> TextAlphabet] : n \in 0..MaxTextLen}

InitParagraph ==
    /\ InitMatchingIdle
    /\ NoThreads
    /\ ThemesLoaded
    /\ NoConfig
    /\ paragraph_text \in Texts
    /\ width \in 1..MaxWidth
    /\ paragraph_ret = NoReturn

\* paragraph(text, width=width)
Paragraph ==
    /\ paragraph_ret = NoReturn
    /\ paragraph_ret' = ReturnStr(paragraph(paragraph_text, width))
    /\ UNCHANGED <<paragraph_text, width, matching_vars, thread_vars,
                   theme_vars, config_vars>>

NextParagraph == Paragraph

\* Calls of paragraph on every text and width.
SpecParagraph == InitParagraph /\ [][NextParagraph]_vars

\* ----------------------------------------------------- replace_env_vars
\* The strings of the configurations: "$", a character that starts a
\* variable name, one that only continues it, and one outside names.
MaxCfgLen == 3
CfgAlphabet == {"$", "A", "1", "x"}
CfgStrings == UNION {[1..n -> CfgAlphabet] : n \in 0..MaxCfgLen}

\* The environments: nothing set, A set, A and A1 set.
Environs ==
    {<<>>,
     (<<"A">> :> <<"v">>),
     (<<"A">> :> <<"v">>) @@ (<<"A", "1">> :> <<"$", "A">>)}

\* The configurations holding the string s: in a dict, in a list beside an
\* int, and nested in a dict of a dict and a list, one key being "$A".
Configs(s) ==
    {PyDict(<<Item(<<"k">>, PyStr(s))>>),
     PyList(<<PyStr(s), PyInt(7)>>),
     PyDict(<<Item(<<"$", "A">>, PyDict(<<Item(<<"k">>, PyStr(s))>>)),
              Item(<<"l">>, PyList(<<PyStr(s), PyStr(<<"x", "$", "A">>)>>))>>)}

InitConfig ==
    /\ InitMatchingIdle
    /\ NoThreads
    /\ ThemesLoaded
    /\ NoParagraph
    /\ data \in UNION {Configs(s) : s \in CfgStrings}
    /\ environ \in Environs
    /\ replaced = NoReturn

\* replace_env_vars(data)
ReplaceEnvVars ==
    /\ replaced = NoReturn
    /\ replaced' = replace_env_vars(data, environ)
    /\ UNCHANGED <<data, environ, matching_vars, thread_vars, theme_vars,
                   paragraph_vars>>

NextConfig == ReplaceEnvVars

\* Calls of replace_env_vars on every configuration and environment.
SpecConfig == InitConfig /\ [][NextConfig]_vars

\* ============================================================ properties
\* The vocabulary of the properties, stated without the code's helpers.

\* p is a prefix of s.
IsPrefix(p, s) == Len(p) <= Len(s) /\ SubSeq(s, 1, Len(p)) = p
IsProperPrefix(p, s) == IsPrefix(p, s) /\ p # s

\* The Python (0-based) positions of list C.
Positions(C) == {k - 1 : k \in 1..Len(C)}
At(C, k) == C[k + 1]
Elements(C) == {C[k] : k \in 1..Len(C)}

\* The positions of the candidates equal to q, and of those starting with q.
ExactAt(q, C) == {k \in Positions(C) : At(C, k) = q}
PrefixAt(q, C) == {k \in Positions(C) : IsPrefix(q, At(C, k))}
Least(S) == CHOOSE k \in S : \A m \in S : k <= m

PmatchDone == pc = "done" /\ fn = "pmatch"
StrDone == pc = "done" /\ fn = "match_arg" /\ ~is_batch
BatchDone == pc = "done" /\ fn = "match_arg" /\ is_batch

\* C1 as stated: for every query q, the empty one included, and every list
\* with a candidate equal to q, pmatch(q, C) is the 0-based index of the
\* first occurrence of q.
C1_ExactWinsEveryQuery ==
    (PmatchDone /\ ExactAt(arg, choices) # {})
        => pmatch_ret = Least(ExactAt(arg, choices))

\* C1 amended: for every non-empty query q and every list with a candidate
\* equal to q, pmatch(q, C) is the 0-based index of the first occurrence of
\* q, also when other candidates have q as a proper prefix.
C1_ExactWinsNonEmptyQuery ==
    (PmatchDone /\ arg # <<>> /\ ExactAt(arg, choices) # {})
        => pmatch_ret = Least(ExactAt(arg, choices))

\* C1 witness: q occurs twice, after a candidate that has q as a proper
\* prefix, and pmatch returned the position of its first occurrence.
C1_Witness ==
    /\ PmatchDone
    /\ arg # <<>>
    /\ Cardinality(ExactAt(arg, choices)) = 2
    /\ \E k \in Positions(choices) :
          /\ IsProperPrefix(arg, At(choices, k))
          /\ k < Least(ExactAt(arg, choices))
    /\ pmatch_ret = Least(ExactAt(arg, choices))

\* C2: for a non-empty query q equal to no candidate, pmatch(q, C) is
\* decided by the number n of candidates that start with q: None for n = 0,
\* the index of the single candidate for n = 1, the marker -1 for n >= 2.
C2_PrefixCountDecides ==
    (PmatchDone /\ arg # <<>> /\ ExactAt(arg, choices) = {})
        => LET n == Cardinality(PrefixAt(arg, choices))
           IN  /\ n = 0 => pmatch_ret = None
               /\ n = 1 => pmatch_ret = Least(PrefixAt(arg, choices))
               /\ n >= 2 => pmatch_ret = -1

\* C2 witness: two candidates start with q, a third does not, none equals
\* q, and pmatch returned the ambiguous marker.
C2_Witness ==
    /\ PmatchDone
    /\ arg # <<>>
    /\ ExactAt(arg, choices) = {}
    /\ Cardinality(PrefixAt(arg, choices)) = 2
    /\ Len(choices) = 3
    /\ pmatch_ret = -1

\* C3: pmatch("", C) is None for every list C, also when C contains "".
C3_EmptyQueryNoMatch ==
    (PmatchDone /\ arg = <<>>) => pmatch_ret = None

\* C3 witness: the empty query against a list that contains the empty
\* string and a non-empty candidate.
C3_Witness ==
    /\ PmatchDone
    /\ arg = <<>>
    /\ <<>> \in Elements(choices)
    /\ \E c \in Elements(choices) : c # <<>>
    /\ pmatch_ret = None

\* C with its later duplicates removed, first-occurrence order kept.
RECURSIVE FirstOccurrences(_, _)
FirstOccurrences(C, n) ==
    IF n = 0 THEN <<>>
    ELSE FirstOccurrences(C, n - 1)
            \o (IF \E j \in 1..(n - 1) : C[j] = C[n] THEN <<>> ELSE <<C[n]>>)
Deduplicated(C) == FirstOccurrences(C, Len(C))

\* The strings of L written one after the other with ", " between them.
RECURSIVE CommaJoined(_)
CommaJoined(L) ==
    IF L = <<>> THEN <<>>
    ELSE IF Len(L) = 1 THEN L[1]
    ELSE CommaJoined(SubSeq(L, 1, Len(L) - 1)) \o <<",", " ">> \o L[Len(L)]

\* The candidates of L that start with q, in the order of L.
StartingWith(q, L) == SelectSeq(L, LAMBDA c : IsPrefix(q, c))

\* text occurs in msg.
Contains(msg, text) ==
    \E k \in 0..(Len(msg) - Len(text)) :
        SubSeq(msg, k + 1, k + Len(text)) = text

\* The query matches no candidate: it is empty, or no candidate starts
\* with it.
MatchesNothing(q, C) ==
    q = <<>> \/ \A c \in Elements(C) : ~IsPrefix(q, c)

\* The query is ambiguous: it is not empty, no candidate equals it and at
\* least two different candidates start with it.
IsAmbiguous(q, C) ==
    /\ q # <<>>
    /\ q \notin Elements(C)
    /\ Cardinality({c \in Elements(C) : IsPrefix(q, c)}) >= 2

\* C4: when pmatch over the deduplicated choices is Unique(i), match_arg
\* returns choices[i] as a str for several_ok=False and as the list
\* [choices[i]] for several_ok=True; the candidate is an element of the
\* caller's choices and starts with the query.
C4_UniqueReturnsChoice ==
    LET D == Deduplicated(choices)
        idx == pmatch(arg, D)
    IN  (StrDone /\ idx \in Positions(D))
            => /\ several_ok => outcome = ReturnList(<<At(D, idx)>>)
               /\ ~several_ok => outcome = ReturnStr(At(D, idx))
               /\ At(D, idx) \in Elements(choices)
               /\ IsPrefix(arg, At(D, idx))

\* C4 witness: a unique proper-prefix match at a position that
\* deduplication moved, returned as a one-element list.
C4_Witness ==
    /\ StrDone
    /\ several_ok
    /\ Len(Deduplicated(choices)) < Len(choices)
    /\ pmatch(arg, Deduplicated(choices)) = 1
    /\ outcome.kind = "list"
    /\ Len(outcome.val) = 1
    /\ IsProperPrefix(arg, outcome.val[1])
    /\ choices[2] # outcome.val[1]

\* C5: when a single-string query matches no candidate, match_arg raises
\* ValueError with the message "The provided argument '<q>' is not valid.
\* Available choices are: <c1, c2, ...>." over the deduplicated choices in
\* first-occurrence order, so that it contains the query and that list.
C5_NoMatchMessage ==
    (StrDone /\ MatchesNothing(arg, choices))
        => LET listed == CommaJoined(Deduplicated(choices))
           IN  /\ outcome.kind = "ValueError"
               /\ outcome.val = NotValidHead \o arg \o NotValidMid
                                    \o listed \o <<".">>

\* C5 witness: a non-empty query that no candidate starts with, against a
\* list with a repeated candidate and two different ones.
C5_Witness ==
    /\ StrDone
    /\ arg # <<>>
    /\ MatchesNothing(arg, choices)
    /\ Len(choices) = 3
    /\ Len(Deduplicated(choices)) = 2
    /\ outcome.kind = "ValueError"

\* C6: when a single-string query is ambiguous and several_ok=False,
\* match_arg raises ValueError with the message "The argument '<q>' matches
\* multiple choices: <m1, m2, ...>. Be more specific." where m1, m2, ...
\* are exactly the deduplicated candidates that start with the query.
C6_AmbiguousMessage ==
    (StrDone /\ ~several_ok /\ IsAmbiguous(arg, choices))
        => LET listed == CommaJoined(StartingWith(arg, Deduplicated(choices)))
           IN  /\ outcome.kind = "ValueError"
               /\ outcome.val = AmbiguousHead \o arg \o AmbiguousMid
                                    \o listed \o AmbiguousTail

\* C6 witness: an ambiguous query against a list that also holds a
\* candidate not starting with it, several_ok=False, ValueError raised.
C6_Witness ==
    /\ StrDone
    /\ ~several_ok
    /\ IsAmbiguous(arg, choices)
    /\ \E c \in Elements(choices) : ~IsPrefix(arg, c)
    /\ outcome.kind = "ValueError"

\* C7: when a single-string query is ambiguous and several_ok=True,
\* match_arg returns a list holding exactly the deduplicated candidates that
\* start with the query, each once, so at least two.
C7_AmbiguousReturnsAll ==
    (StrDone /\ several_ok /\ IsAmbiguous(arg, choices))
        => LET expected == {c \in Elements(choices) : IsPrefix(arg, c)}
           IN  /\ outcome.kind = "list"
               /\ Elements(outcome.val) = expected
               /\ Len(outcome.val) = Cardinality(expected)
               /\ Len(outcome.val) >= 2

\* C7 witness: an ambiguous query against a list with a repeated matching
\* candidate, several_ok=True, two candidates returned.
C7_Witness ==
    /\ StrDone
    /\ several_ok
    /\ IsAmbiguous(arg, choices)
    /\ Len(choices) = 3
    /\ Len(Deduplicated(choices)) = 2
    /\ outcome.kind = "list"
    /\ Len(outcome.val) = 2

\* C8: a single-string query that matches no candidate makes match_arg
\* raise the no-match ValueError whatever several_ok is: the call never
\* returns, and the other value of several_ok gives the same failure.
C8_NoMatchNotSuppressed ==
    (StrDone /\ MatchesNothing(arg, choices))
        => /\ outcome.kind = "ValueError"
           /\ SubSeq(outcome.val, 1, Len(NotValidHead)) = NotValidHead
           /\ outcome = match_arg_str(arg, choices, ~several_ok)

\* C8 witness: several_ok=True, a non-empty query no candidate starts with,
\* a non-empty list, ValueError raised.
C8_Witness ==
    /\ StrDone
    /\ several_ok
    /\ arg # <<>>
    /\ choices # <<>>
    /\ MatchesNothing(arg, choices)
    /\ outcome.kind = "ValueError"

\* C9: a batch query with several_ok=False fails at once with the policy
\* ValueError, whatever the batch holds: the call is over as soon as it is
\* made, the loop is never entered and no element is taken or matched.
C9_BatchPolicyError ==
    (fn = "match_arg" /\ is_batch /\ ~several_ok)
        => /\ pc = "done"
           /\ outcome.kind = "ValueError"
           /\ Contains(outcome.val,
                  << "o", "n", "l", "y", " ", "a", "l", "l", "o", "w", "e",
                     "d", " ", "w", "h", "e", "n", " ", "s", "e", "v", "e",
                     "r", "a", "l", "_", "o", "k", "=", "T", "r", "u", "e" >>)
           /\ ~Contains(outcome.val, ElementHead)
           /\ i = 0
           /\ arg_list = <<>>
           /\ all_matches = <<>>

\* C9 witness: a batch of at least two elements that each resolve, with
\* several_ok=False, ended by a ValueError.
C9_Witness ==
    /\ BatchDone
    /\ ~several_ok
    /\ Len(arg) >= 2
    /\ \A k \in 1..Len(arg) :
          match_arg_str(arg[k], choices, TRUE).kind = "list"
    /\ outcome.kind = "ValueError"

\* The query resolves: it is not empty and some candidate starts with it.
Resolves(q, C) == q # <<>> /\ \E c \in Elements(C) : IsPrefix(q, c)

\* match_arg(q, C, several_ok=True) of every q of qs, one after the other.
RECURSIVE ConcatOfSingles(_, _)
ConcatOfSingles(qs, C) ==
    IF qs = <<>> THEN <<>>
    ELSE match_arg_str(Head(qs), C, TRUE).val \o ConcatOfSingles(Tail(qs), C)

\* What one resolving query contributes: itself when a candidate equals
\* it, otherwise every deduplicated candidate that starts with it.
Contribution(q, C) ==
    IF q \in Elements(C) THEN <<q>> ELSE StartingWith(q, Deduplicated(C))

RECURSIVE ConcatOfContributions(_, _)
ConcatOfContributions(qs, C) ==
    IF qs = <<>> THEN <<>>
    ELSE Contribution(Head(qs), C) \o ConcatOfContributions(Tail(qs), C)

\* C10: a batch [q1..qn] with several_ok=True whose elements all resolve
\* returns the concatenation, in query order, of match_arg(qi, choices,
\* several_ok=True): an ambiguous element contributes all its matches, a
\* repeated query contributes again, and nothing is deduplicated.
C10_BatchConcatenates ==
    (BatchDone /\ several_ok
        /\ \A k \in 1..Len(arg) : Resolves(arg[k], choices))
        => /\ outcome = ReturnList(ConcatOfSingles(arg, choices))
           /\ outcome.val = ConcatOfContributions(arg, choices)
           /\ i = Len(arg)

\* C10 witness: a batch with an ambiguous element whose result holds the
\* same candidate twice.
C10_Witness ==
    /\ BatchDone
    /\ several_ok
    /\ \A k \in 1..Len(arg) : Resolves(arg[k], choices)
    /\ \E k \in 1..Len(arg) : IsAmbiguous(arg[k], choices)
    /\ outcome.kind = "list"
    /\ Cardinality(Elements(outcome.val)) < Len(outcome.val)

\* The 0-based positions of the batch elements that match nothing.
FailingAt(qs, C) == {k \in Positions(qs) : MatchesNothing(At(qs, k), C)}

\* The decimal numeral of a position below ten.
Numeral(k) ==
    <<SubSeq(<<"0", "1", "2", "3", "4", "5", "6", "7", "8", "9">>,
             k + 1, k + 1)[1]>>

\* msg ends with text.
EndsWith(msg, text) ==
    /\ Len(text) <= Len(msg)
    /\ SubSeq(msg, Len(msg) - Len(text) + 1, Len(msg)) = text

\* The no-match message of query q over the choices C.
NoMatchText(q, C) ==
    NotValidHead \o q \o NotValidMid \o CommaJoined(Deduplicated(C))
        \o <<".">>

\* C11: a batch with several_ok=True in which some element matches no
\* candidate raises a ValueError that names the 0-based index and the value
\* of the first such element and wraps that element's no-match message; the
\* loop stops at that element, so no later element is taken, and the
\* matches gathered before it are not returned.
C11_BatchFailsFast ==
    (BatchDone /\ several_ok /\ FailingAt(arg, choices) # {})
        => LET k == Least(FailingAt(arg, choices))
               q == At(arg, k)
           IN  /\ outcome.kind = "ValueError"
               /\ EndsWith(outcome.val,
                      <<"e", "l", "e", "m", "e", "n", "t", " ">>
                          \o Numeral(k) \o <<" ", "(", "'">> \o q
                          \o <<"'", ")", ":", " ">>
                          \o NoMatchText(q, choices))
               /\ i = k
               /\ Len(all_matches)
                      = Len(ConcatOfContributions(SubSeq(arg, 1, k), choices))

\* C11 witness: the second element matches nothing, after a first element
\* that resolved and whose matches were gathered.
C11_Witness ==
    /\ BatchDone
    /\ several_ok
    /\ FailingAt(arg, choices) = {1}
    /\ At(arg, 1) # <<>>
    /\ all_matches # <<>>
    /\ outcome.kind = "ValueError"

\* C12: for every query, every several_ok and every choices list C,
\* match_arg(query, C) has the outcome (returned value, or failure and its
\* message) of match_arg(query, D), D being C without its later duplicates;
\* a candidate listed twice does not make its own unique prefix ambiguous.
C12_DuplicatesIgnored ==
    /\ StrDone
          => outcome = match_arg_str(arg, Deduplicated(choices), several_ok)
    /\ BatchDone
          => outcome = match_arg_iterable(arg, Deduplicated(choices),
                                          several_ok)
    /\ (StrDone /\ arg # <<>>
          /\ Cardinality({c \in Elements(choices) : IsPrefix(arg, c)}) = 1)
          => outcome.kind # "ValueError"

\* C12 witness: a candidate listed twice, a query that is a proper prefix
\* of it and of no other candidate, and the candidate returned.
C12_Witness ==
    /\ StrDone
    /\ ~several_ok
    /\ Cardinality(PrefixAt(arg, choices)) = 2
    /\ Cardinality({c \in Elements(choices) : IsPrefix(arg, c)}) = 1
    /\ arg \notin Elements(choices)
    /\ outcome.kind = "str"
    /\ IsProperPrefix(arg, outcome.val)

\* C13: idempotence.  Whenever match_arg(q, C) with several_ok=False returns
\* r, by an exact or by a unique-prefix match, match_arg(r, C) returns r.
C13_Idempotent ==
    (StrDone /\ ~several_ok /\ outcome.kind = "str")
        => match_arg_str(outcome.val, choices, FALSE) = ReturnStr(outcome.val)

\* C13 witness: r was found by a unique proper-prefix match, at a position
\* that is not the first, in a list of three candidates.
C13_Witness ==
    /\ StrDone
    /\ ~several_ok
    /\ outcome.kind = "str"
    /\ IsProperPrefix(arg, outcome.val)
    /\ Len(choices) = 3
    /\ choices[1] # outcome.val

\* The lists that are C in another order.
Reorderings(C) ==
    LET n == Len(C)
        Shuffles == {f \in [1..n -> 1..n] :
                        \A a, b \in 1..n : a # b => f[a] # f[b]}
    IN  {[k \in 1..n |-> C[f[k]]] : f \in Shuffles}

\* msg begins with text.
BeginsWith(msg, text) ==
    Len(text) <= Len(msg) /\ SubSeq(msg, 1, Len(text)) = text

\* Two outcomes agree up to the order in which candidates are reported: the
\* same str, the same kind of failure (no-match or ambiguous), or lists of
\* the same candidates.
SameUpToOrder(o1, o2) ==
    /\ o1.kind = o2.kind
    /\ o1.kind = "str" => o1.val = o2.val
    /\ o1.kind = "list" => Elements(o1.val) = Elements(o2.val)
    /\ o1.kind = "ValueError"
          => /\ BeginsWith(o1.val, NotValidHead)
                    <=> BeginsWith(o2.val, NotValidHead)
             /\ BeginsWith(o1.val, AmbiguousHead)
                    <=> BeginsWith(o2.val, AmbiguousHead)

\* C14: order independence.  For every query and every two choices lists
\* that are permutations of each other, match_arg with several_ok=False
\* resolves to the same candidate or fails in the same way (no-match or
\* ambiguous), and with several_ok=True returns the same set of candidates.
C14_OrderIndependent ==
    StrDone
        => \A P \in Reorderings(choices) :
              SameUpToOrder(outcome, match_arg_str(arg, P, several_ok))

\* C14 witness: three different candidates, the query equal to one that is
\* not listed first and a proper prefix of another, resolved to itself.
C14_Witness ==
    /\ StrDone
    /\ ~several_ok
    /\ Cardinality(Elements(choices)) = 3
    /\ choices[1] # arg
    /\ \E c \in Elements(choices) : IsProperPrefix(arg, c)
    /\ outcome = ReturnStr(arg)

\* The ValueError of the batch element at 0-based position k with value q
\* and no-match message: "... element <k> ('<q>'): <no-match message>".
FailsAtElement(o, k, q, C) ==
    /\ o.kind = "ValueError"
    /\ EndsWith(o.val,
           <<"e", "l", "e", "m", "e", "n", "t", " ">>
               \o Numeral(k) \o <<" ", "(", "'">> \o q
               \o <<"'", ")", ":", " ">> \o NoMatchText(q, C))

\* The positions of the empty strings of a batch.
EmptyAt(qs) == {k \in Positions(qs) : At(qs, k) = <<>>}

\* C15 as stated: match_arg with an empty-string query fails with the
\* no-match error for both several_ok values, also when choices contains
\* the empty string, and a batch containing an empty-string element fails
\* at an empty-string element.
C15_EmptyFailsAtItsElement ==
    /\ (StrDone /\ arg = <<>>)
          => outcome = ValueError(NoMatchText(<<>>, choices))
    /\ (BatchDone /\ several_ok /\ EmptyAt(arg) # {})
          => \E k \in EmptyAt(arg) :
                FailsAtElement(outcome, k, <<>>, choices)

\* C15 amended: match_arg with an empty-string query fails with the
\* no-match error for both several_ok values, also when choices contains
\* the empty string; a batch with several_ok=True containing an
\* empty-string element always fails, at its first element that is empty
\* or matches no candidate, which is the first empty-string element when
\* every element before it resolves.
C15_EmptyQueryFails ==
    /\ (StrDone /\ arg = <<>>)
          => outcome = ValueError(NoMatchText(<<>>, choices))
    /\ (BatchDone /\ several_ok /\ EmptyAt(arg) # {})
          => LET k == Least(FailingAt(arg, choices))
             IN  /\ FailsAtElement(outcome, k, At(arg, k), choices)
                 /\ k <= Least(EmptyAt(arg))
                 /\ (\A m \in 0..(Least(EmptyAt(arg)) - 1) :
                        Resolves(At(arg, m), choices))
                       => k = Least(EmptyAt(arg))

\* C15 witness: a batch whose first element resolves and whose second
\* element is the empty string, against choices that contain the empty
\* string; the call raised.
C15_Witness ==
    /\ BatchDone
    /\ several_ok
    /\ Len(arg) = 2
    /\ Resolves(arg[1], choices)
    /\ arg[2] = <<>>
    /\ <<>> \in Elements(choices)
    /\ FailsAtElement(outcome, 1, <<>>, choices)

\* The different candidates of C that start with q.
DistinctStartingWith(q, C) == {c \in Elements(C) : IsPrefix(q, c)}

\* C16 as stated: pmatch reports the ambiguous marker only when two or more
\* distinct candidates have the query as a prefix and no candidate equals
\* the query, for every table, one that lists a candidate twice included.
C16_AmbiguousMeansDistinct ==
    (PmatchDone /\ pmatch_ret = -1)
        => /\ Cardinality(DistinctStartingWith(arg, choices)) >= 2
           /\ ExactAt(arg, choices) = {}

\* C16 amended: pmatch reports the ambiguous marker only when two or more
\* entries of the table have the non-empty query as a prefix and no entry
\* equals the query; the entries are distinct candidates when the table
\* lists no candidate twice, while a candidate listed twice is ambiguous
\* with itself.
C16_AmbiguousMeansTwoEntries ==
    (PmatchDone /\ pmatch_ret = -1)
        => /\ arg # <<>>
           /\ Cardinality(PrefixAt(arg, choices)) >= 2
           /\ ExactAt(arg, choices) = {}
           /\ Len(Deduplicated(choices)) = Len(choices)
                 => Cardinality(DistinctStartingWith(arg, choices)) >= 2

\* C16 witness: the ambiguous marker for a query that is a prefix of two
\* different candidates, one of them listed twice.
C16_Witness ==
    /\ PmatchDone
    /\ pmatch_ret = -1
    /\ Cardinality(PrefixAt(arg, choices)) = 3
    /\ Cardinality(DistinctStartingWith(arg, choices)) = 2

\* C17: match_arg leaves the caller's choices list as it was (same
\* elements, same order, duplicates still there) in every step of every
\* call, whether the call returns or raises; the deduplicated list is a
\* local of the handler.
C17_ChoicesUntouched == [][choices' = choices]_vars

\* C17 witness: a batch call on a list with a repeated candidate has
\* deduplicated its local copy, gone through its loop and returned.
C17_Witness ==
    /\ BatchDone
    /\ several_ok
    /\ Len(arg) = 2
    /\ outcome.kind = "list"
    /\ Len(Deduplicated(choices)) < Len(choices)
    /\ local_choices = Deduplicated(choices)

\* C19: on a table whose only candidate is the empty string (listed once or
\* more), pmatch returns None for every query, the empty query included.
C19_OnlyEmptyCandidateNoMatch ==
    (PmatchDone /\ choices # <<>> /\ Elements(choices) = {<<>>})
        => pmatch_ret = None

\* C19 witness: a query of full length was looked up in a table holding the
\* empty string and nothing else, and matched nothing.
C19_Witness ==
    /\ PmatchDone
    /\ choices # <<>>
    /\ Elements(choices) = {<<>>}
    /\ Len(arg) = MaxStrLen
    /\ pmatch_ret = None

\* C20: a query strictly longer than every candidate of the table matches
\* nothing: pmatch returns None, never an index and never -1.
C20_LongerQueryNoMatch ==
    (PmatchDone /\ \A k \in Positions(choices) : Len(arg) > Len(At(choices, k)))
        => pmatch_ret = None

\* C20 witness: the table holds a non-empty candidate that is a proper
\* prefix of the query, every candidate is shorter than the query, and the
\* lookup matched nothing.
C20_Witness ==
    /\ PmatchDone
    /\ \A k \in Positions(choices) : Len(arg) > Len(At(choices, k))
    /\ \E k \in Positions(choices) :
          /\ At(choices, k) # <<>>
          /\ IsProperPrefix(At(choices, k), arg)
    /\ pmatch_ret = None

\* C18: matching compares character for character, letter case included,
\* and only at the start of a candidate.  pmatch returns a position only of
\* a candidate whose leading characters are the query, and None when no
\* candidate starts with the query; match_arg returns only candidates that
\* start with the query and raises when none does, however many candidates
\* have the query in another letter case or inside them.  With choices
\* among 'Apple', 'apple', 'APPLE' and 'apple' present, 'app' resolves to
\* 'apple' alone (in a list of one under several_ok).
C18_CaseSensitivePrefixOnly ==
    /\ PmatchDone =>
          /\ pmatch_ret \in Positions(choices)
                => IsPrefix(arg, At(choices, pmatch_ret))
          /\ PrefixAt(arg, choices) = {} => pmatch_ret = None
    /\ StrDone =>
          /\ outcome.kind = "str"
                => outcome.val \in Elements(choices) /\ IsPrefix(arg, outcome.val)
          /\ outcome.kind = "list"
                => \A c \in Elements(outcome.val) :
                      c \in Elements(choices) /\ IsPrefix(arg, c)
          /\ PrefixAt(arg, choices) = {} => outcome.kind = "ValueError"
          /\ (/\ arg = app
              /\ apple \in Elements(choices)
              /\ Elements(choices) \subseteq {Apple, apple, APPLE})
                => outcome = IF several_ok THEN ReturnList(<<apple>>)
                                            ELSE ReturnStr(apple)

\* C18 witness: the call of the test, match_arg('app', ['Apple', 'apple',
\* 'APPLE']), has returned 'apple'.
C18_Witness ==
    /\ StrDone
    /\ ~several_ok
    /\ arg = app
    /\ choices = <<Apple, apple, APPLE>>
    /\ outcome = ReturnStr(apple)

\* C21: match_arg([], choices, several_ok=True) returns the empty list, for
\* every choices list: an empty batch is not a failure.
C21_EmptyBatchReturnsEmpty ==
    (BatchDone /\ several_ok /\ arg = <<>>) => outcome = ReturnList(<<>>)

\* C21 witness: the empty batch was matched against a non-empty choices
\* list under several_ok=True and the call returned [].
C21_Witness ==
    /\ BatchDone
    /\ several_ok
    /\ arg = <<>>
    /\ choices # <<>>
    /\ outcome = ReturnList(<<>>)

\* C22 as stated: a batch query with several_ok=False raises a ValueError
\* whose message contains 'List input is only allowed when several_ok=True',
\* the text test_match_arg_list_input_several_ok_false looks for.
C22_ListInputText ==
    (BatchDone /\ ~several_ok)
        => /\ outcome.kind = "ValueError"
           /\ Contains(outcome.val,
                  << "L", "i", "s", "t", " ", "i", "n", "p", "u", "t", " ",
                     "i", "s", " ", "o", "n", "l", "y", " ", "a", "l", "l",
                     "o", "w", "e", "d", " ", "w", "h", "e", "n", " ", "s",
                     "e", "v", "e", "r", "a", "l", "_", "o", "k", "=", "T",
                     "r", "u", "e" >>)

\* C23 as stated: a batch with several_ok=True whose first element that
\* matches no candidate is v, at 0-based index i, raises a ValueError whose
\* message contains "Error in list element i ('v')" and, after it, the
\* no-match message of v, the text test_match_arg_list_with_no_match_element
\* looks for.
C23_ListElementText ==
    (BatchDone /\ several_ok /\ FailingAt(arg, choices) # {})
        => LET k == Least(FailingAt(arg, choices))
               q == At(arg, k)
           IN  /\ outcome.kind = "ValueError"
               /\ Contains(outcome.val,
                      << "E", "r", "r", "o", "r", " ", "i", "n", " ", "l",
                         "i", "s", "t", " ", "e", "l", "e", "m", "e", "n",
                         "t", " " >>
                          \o Numeral(k) \o <<" ", "(", "'">> \o q
                          \o <<"'", ")">>)
               /\ EndsWith(outcome.val, NoMatchText(q, choices))

LegacyDone == pc = "done" /\ fn = "legacy_match_arg"

\* C25: ruru.base.match_arg.match_arg matches exactly only.  It returns arg
\* as it is when arg is an element of choices; otherwise it raises
\* ValueError with "The provided argument '<arg>' is not valid. Available
\* choices are: <choices joined by ', '>.", the choices as given; a proper
\* prefix of a choice that is not itself a choice is rejected.
C25_LegacyExactOnly ==
    LegacyDone
        => /\ arg \in Elements(choices) => outcome = ReturnStr(arg)
           /\ arg \notin Elements(choices)
                 => outcome = ValueError(
                        NotValidHead \o arg \o NotValidMid
                            \o CommaJoined(choices) \o <<".">>)

\* C25 witness: a non-empty proper prefix of a choice, not itself a choice,
\* was rejected, against a list that names a choice twice.
C25_Witness ==
    /\ LegacyDone
    /\ arg # <<>>
    /\ arg \notin Elements(choices)
    /\ \E c \in Elements(choices) : IsProperPrefix(arg, c)
    /\ Len(Deduplicated(choices)) < Len(choices)
    /\ outcome.kind = "ValueError"

\* What the finished call c gives when it runs alone on its arguments.
Alone(c) ==
    IF c.fn = "pmatch" THEN [ret |-> pmatch(c.arg, c.choices)]
    ELSE IF c.is_batch
            THEN [ret |-> match_arg_iterable(c.arg, c.choices, c.several_ok)]
            ELSE [ret |-> match_arg_str(c.arg, c.choices, c.several_ok)]

\* C24: calls of match_arg and pmatch by different threads, each on its own
\* arguments, interleave freely: whatever the other thread was doing, a
\* finished call has the outcome it has when it runs alone, and each
\* thread's choices list is one it started with.
C24_InterleavedAsAlone ==
    \A t \in Threads :
        /\ calls[t].choices \in ThreadChoiceLists
        /\ calls[t].pc = "done"
              => Alone(calls[t])
                    = [ret |-> IF calls[t].fn = "pmatch"
                                  THEN calls[t].pmatch_ret
                                  ELSE calls[t].outcome]

\* C24 witness: thread 1 has returned the matches of a batch of two while
\* thread 2 is inside its own loop with matches gathered and more elements
\* to take.
C24_Witness ==
    /\ calls[1].pc = "done"
    /\ calls[1].is_batch
    /\ calls[1].outcome.kind = "list"
    /\ Len(calls[1].arg) = 2
    /\ calls[2].pc = "loop"
    /\ calls[2].all_matches # <<>>
    /\ calls[2].i < Len(calls[2].arg_list)

\* The theme that the calls of log selected: that of the last set_theme
\* call given a Theme object or the name of a predefined theme, the
\* 'default' theme when there is none.
RECURSIVE Selected(_)
Selected(log) ==
    IF log = <<>> THEN THEMES["default"]
    ELSE LET last == log[Len(log)]
             before == SubSeq(log, 1, Len(log) - 1)
         IN  IF last.op # "set_theme" THEN Selected(before)
             ELSE IF last.theme.kind = "Theme" THEN last.theme.val
             ELSE IF last.theme.val \in {"default", "dark", "light", "minimal"}
                     THEN THEMES[last.theme.val]
             ELSE Selected(before)

\* C26: after any sequence of set_theme calls, get_current_theme() returns
\* the theme selected by the most recent set_theme call that succeeded (the
\* predefined theme of that name, or the very Theme object passed), and the
\* 'default' theme when none has; set_theme with a name that is not a
\* predefined theme raises ValueError "Unknown theme: ..." and leaves the
\* current theme as it was, and every other set_theme call returns.
C26_CurrentThemeIsLastSet ==
    /\ current_theme = Selected(theme_log)
    /\ \A k \in 1..Len(theme_log) :
          LET call == theme_log[k]
              before == SubSeq(theme_log, 1, k - 1)
          IN  /\ call.op = "get_current_theme" => call.ret = Selected(before)
              /\ call.op = "set_theme" =>
                    IF /\ call.theme.kind = "str"
                       /\ call.theme.val
                             \notin {"default", "dark", "light", "minimal"}
                       THEN /\ call.raised.kind = "ValueError"
                            /\ call.raised.val[1] = "Unknown theme: "
                            /\ Selected(SubSeq(theme_log, 1, k))
                                  = Selected(before)
                       ELSE call.raised = NoReturn

\* C26 witness: set_theme selected a custom Theme object, a set_theme with
\* an unknown name then raised, and get_current_theme returned the custom
\* object.
C26_Witness ==
    /\ Len(theme_log) = 3
    /\ theme_log[1].op = "set_theme"
    /\ theme_log[1].theme.kind = "Theme"
    /\ theme_log[2].op = "set_theme"
    /\ theme_log[2].raised.kind = "ValueError"
    /\ theme_log[3].op = "get_current_theme"
    /\ theme_log[3].ret = theme_log[1].theme.val

\* The lines of s: the pieces between its "\n" characters.
RECURSIVE LinesOf(_)
LinesOf(s) ==
    IF \A k \in 1..Len(s) : s[k] # "\n" THEN {s}
    ELSE LET k == CHOOSE j \in 1..Len(s) :
                      s[j] = "\n" /\ \A m \in 1..(j - 1) : s[m] # "\n"
         IN  {SubSeq(s, 1, k - 1)} \cup LinesOf(SubSeq(s, k + 1, Len(s)))

\* C27 as stated: for every text and every width, each line of
\* paragraph(text, width=width) has length at most width.
C27_LinesWithinWidth ==
    paragraph_ret # NoReturn
        => \A l \in LinesOf(paragraph_ret.val) : Len(l) <= width

\* The positions of s where a $VAR_NAME occurrence starts, and the last
\* position of the occurrence that starts at p.
OccurrenceStarts(s) ==
    {p \in 1..(Len(s) - 1) :
        s[p] = "$" /\ (s[p + 1] \in {"A", "_"})}
OccurrenceEnd(s, p) ==
    CHOOSE q \in (p + 1)..Len(s) :
        /\ \A m \in (p + 2)..q : s[m] \in {"A", "1", "_"}
        /\ q < Len(s) => s[q + 1] \notin {"A", "1", "_"}
VarNameAt(s, p) == SubSeq(s, p + 1, OccurrenceEnd(s, p))

\* s with every $VAR_NAME occurrence replaced by the variable's value in
\* env, or by the empty string when the variable is not set; positions
\* from p on.
RECURSIVE SubstitutedFrom(_, _, _)
SubstitutedFrom(s, p, env) ==
    IF p > Len(s) THEN <<>>
    ELSE IF p \in OccurrenceStarts(s)
            THEN (IF VarNameAt(s, p) \in DOMAIN env
                     THEN env[VarNameAt(s, p)] ELSE <<>>)
                     \o SubstitutedFrom(s, OccurrenceEnd(s, p) + 1, env)
            ELSE <<s[p]>> \o SubstitutedFrom(s, p + 1, env)
Substituted(s, env) == SubstitutedFrom(s, 1, env)

\* s is a lone $VAR_NAME whose variable is not set in env.
LoneUnset(s, env) ==
    /\ OccurrenceStarts(s) = {1}
    /\ OccurrenceEnd(s, 1) = Len(s)
    /\ VarNameAt(s, 1) \notin DOMAIN env

\* The string values of a configuration, at every depth, each with the
\* value at the same place of the result r; shape tells whether r has the
\* types, lengths, keys and non-string values of d.
RECURSIVE StringPairs(_, _)
StringPairs(d, r) ==
    IF d.type = "str" THEN {<<d.str, r.str>>}
    ELSE UNION {StringPairs(d.items[k].value, r.items[k].value) :
                   k \in 1..Len(d.items)}
RECURSIVE SameShape(_, _)
SameShape(d, r) ==
    /\ r.type = d.type
    /\ r.num = d.num
    /\ Len(r.items) = Len(d.items)
    /\ \A k \in 1..Len(d.items) :
          /\ r.items[k].key = d.items[k].key
          /\ SameShape(d.items[k].value, r.items[k].value)

ConfigDone == replaced # NoReturn

C29_ExactGivesSingleton ==
    (StrDone /\ several_ok /\ arg \in Elements(choices))
        => outcome = ReturnList(<<arg>>)

\* C29 amended: with several_ok=True and a non-empty single-string query q
\* equal to a candidate, match_arg returns exactly [q], not the list of the
\* candidates that start with q, also when other candidates have q as a
\* proper prefix.
C29_NonEmptyExactGivesSingleton ==
    (StrDone /\ several_ok /\ arg # <<>> /\ arg \in Elements(choices))
        => outcome = ReturnList(<<arg>>)

\* C29 witness: the query equals a candidate, another candidate has it as
\* a proper prefix, and the call with several_ok=True returned the query
\* alone.
C29_Witness ==
    /\ StrDone
    /\ several_ok
    /\ arg # <<>>
    /\ arg \in Elements(choices)
    /\ \E c \in Elements(choices) : IsProperPrefix(arg, c)
    /\ outcome = ReturnList(<<arg>>)

\* The outcome is the no-match failure, the ambiguous failure.
IsNoMatchFailure(o) == o.kind = "ValueError" /\ BeginsWith(o.val, NotValidHead)
IsAmbiguousFailure(o) ==
    o.kind = "ValueError" /\ BeginsWith(o.val, AmbiguousHead)

\* C30: on every single-string query and choices the two policies agree.
\* With f the outcome for several_ok=False and t that for several_ok=True:
\* f returns r exactly when t returns [r]; f fails as ambiguous exactly
\* when t returns a list of two or more candidates; f fails as no-match
\* exactly when t fails, and then with the same message.
C30_PoliciesAgree ==
    StrDone =>
        LET other == match_arg_str(arg, choices, ~several_ok)
            f == IF several_ok THEN other ELSE outcome
            t == IF several_ok THEN outcome ELSE other
        IN  /\ f.kind \in {"str", "ValueError"}
            /\ t.kind \in {"list", "ValueError"}
            /\ f.kind = "str" <=> (t.kind = "list" /\ Len(t.val) = 1)
            /\ f.kind = "str" => t.val = <<f.val>>
            /\ IsAmbiguousFailure(f) <=> (t.kind = "list" /\ Len(t.val) >= 2)
            /\ IsNoMatchFailure(f) <=> t.kind = "ValueError"
            /\ IsNoMatchFailure(f) => t = f

\* C30 witness: a call with several_ok=True returned two candidates for a
\* query on which several_ok=False fails as ambiguous.
C30_Witness ==
    /\ StrDone
    /\ several_ok
    /\ outcome.kind = "list"
    /\ Len(outcome.val) = 2
    /\ IsAmbiguousFailure(match_arg_str(arg, choices, FALSE))

====
